---- MODULE Spec2Model ----
(***************************************************************************)
(* Prompt Refinery (src/main.py): the POST /refine handler, the two prompt *)
(* builders, the tone lookup and the completion requester run_openai.      *)
(*                                                                         *)
(* A text is a sequence of tokens.  A token is a single character (" ",    *)
(* "\n", "x", ...) or one of the program's literal phrases, cut so that no *)
(* literal token starts or ends with whitespace; str.strip() therefore     *)
(* acts on token sequences exactly as it acts on the characters.           *)
(***************************************************************************)
EXTENDS Integers, Sequences, FiniteSets, TLC

(* ------------------------------ bounds --------------------------------- *)
MaxLen == 2
MaxRequests == 2

(* ------------------------------- text ---------------------------------- *)
Whitespace == {" ", "\n", "\t"}

IsSpace(c) == c \in Whitespace

SetMin(S) == CHOOSE m \in S : \A k \in S : m <= k

SetMax(S) == CHOOSE m \in S : \A k \in S : m >= k

(* str.strip(): drop leading and trailing whitespace characters *)
StripLeftOnly(s) ==
    LET keep == {i \in 1..Len(s) : ~IsSpace(s[i])}
    IN  IF keep = {} THEN <<>> ELSE SubSeq(s, SetMin(keep), Len(s))

Strip(s) ==
    LET keep == {i \in 1..Len(s) : ~IsSpace(s[i])}
    IN  IF keep = {} THEN <<>> ELSE SubSeq(s, SetMin(keep), SetMax(keep))

(* Python's `a or b` on strings: b when a is the empty string *)
OrElse(a, b) == IF a = <<>> THEN b ELSE a

TextsOver(A, n) == UNION {[1..k -> A] : k \in 0..n}

(* --------------------------- program literals -------------------------- *)
DEFAULT_MODEL == <<"gpt-4o-mini">>

TONE_MAP ==
    [neutral      |-> <<"Use a clear, neutral tone.">>,
     friendly     |-> <<"Use a warm, friendly tone that feels approachable.">>,
     professional |-> <<"Use a crisp, professional tone with confident wording.">>,
     playful      |-> <<"Use a playful, light tone that still feels helpful.">>]

BASE_PLACEHOLDER == <<"[Paste your base prompt here]">>

GOAL_PLACEHOLDER == <<"[Describe the outcome you want to achieve]">>

NO_CONSTRAINTS == <<"No additional constraints.">>

DEFAULT_AUDIENCE == <<"general">>

NOT_CONFIGURED_NOTICE ==
    <<"OpenAI is not configured.", " ", "Set OPENAI_API_KEY to enable refinement.",
      "\n", "\n", "Constructed prompt:", "\n">>

FAILED_NOTICE == <<"OpenAI request failed.", " ", "Please try again.", "\n", "\n", "Details:", " ">>

FAILED_TAIL == <<"\n", "\n", "Constructed prompt:", "\n">>

(* ------------------------------ PromptInputs --------------------------- *)
PromptInputs(mode, original_prompt, goal, audience, tone, constraints) ==
    [mode |-> mode, original_prompt |-> original_prompt, goal |-> goal,
     audience |-> audience, tone |-> tone, constraints |-> constraints]

NoInputs == PromptInputs(<<>>, <<>>, <<>>, <<>>, <<>>, <<>>)

(* TONE_MAP.get(inputs.tone, TONE_MAP["neutral"]) *)
build_common_guidance_nofallback(inputs) ==
    IF Len(inputs.tone) = 1 /\ inputs.tone[1] \in DOMAIN TONE_MAP
    THEN TONE_MAP[inputs.tone[1]]
    ELSE <<>>

build_common_guidance(inputs) ==
    IF Len(inputs.tone) = 1 /\ inputs.tone[1] \in DOMAIN TONE_MAP
    THEN TONE_MAP[inputs.tone[1]]
    ELSE TONE_MAP["neutral"]

build_refined_prompt(inputs) ==
    LET base_prompt == OrElse(inputs.original_prompt, BASE_PLACEHOLDER)
        guidance    == build_common_guidance(inputs)
    IN  <<"Rewrite the prompt below so it is clear, specific, and easy to execute.", "\n",
          "Include a concise role, the task, required inputs, constraints, and output format.", "\n",
          "Audience:", " ">> \o inputs.audience \o <<".", "\n">>
        \o guidance \o <<"\n">>
        \o <<"Constraints:", " ">> \o OrElse(inputs.constraints, NO_CONSTRAINTS) \o <<"\n", "\n">>
        \o <<"Original prompt:", "\n">>
        \o base_prompt

build_generated_prompt_noaudience(inputs) ==
    <<"Create a new prompt that guides an assistant to achieve the goal below.", "\n",
      "Include a concise role, the task, required inputs, constraints, and output format.", "\n",
      "Use placeholders for missing details the user should fill in.", "\n",
      "Goal:", " ">> \o OrElse(inputs.goal, GOAL_PLACEHOLDER) \o <<"\n">>
    \o <<"Audience:", " ">> \o DEFAULT_AUDIENCE \o <<".", "\n">>
    \o build_common_guidance(inputs) \o <<"\n">>
    \o <<"Constraints:", " ">> \o OrElse(inputs.constraints, NO_CONSTRAINTS)

build_generated_prompt(inputs) ==
    LET goal     == OrElse(inputs.goal, GOAL_PLACEHOLDER)
        guidance == build_common_guidance(inputs)
    IN  <<"Create a new prompt that guides an assistant to achieve the goal below.", "\n",
          "Include a concise role, the task, required inputs, constraints, and output format.", "\n",
          "Use placeholders for missing details the user should fill in.", "\n",
          "Goal:", " ">> \o goal \o <<"\n">>
        \o <<"Audience:", " ">> \o inputs.audience \o <<".", "\n">>
        \o guidance \o <<"\n">>
        \o <<"Constraints:", " ">> \o OrElse(inputs.constraints, NO_CONSTRAINTS)

(* ------------------------------- state --------------------------------- *)
VARIABLES
    environ,             \* the process environment read at import time
    OPENAI_API_KEY,      \* os.getenv("OPENAI_API_KEY", "").strip()
    OPENAI_MODEL,        \* os.getenv("OPENAI_MODEL", "gpt-4o-mini")
    openai_client,       \* TRUE: an AsyncOpenAI client exists; FALSE: None
    formEmptyIsMissing,  \* how the installed form binder treats an empty value
    req,                 \* the POST /refine requests, by request id
    b_inputs,            \* builder harness: the PromptInputs under test
    b_fn,                \* builder harness: which builder was applied
    b_out                \* builder harness: the string it returned

vars == <<environ, OPENAI_API_KEY, OPENAI_MODEL, openai_client, formEmptyIsMissing,
          req, b_inputs, b_fn, b_out>>

config == <<environ, OPENAI_API_KEY, OPENAI_MODEL, openai_client, formEmptyIsMissing>>

harness == <<b_inputs, b_fn, b_out>>

(* os.getenv(name, default) *)
getenv(env, name, default) == IF name \in DOMAIN env THEN env[name] ELSE default

(* truthiness of a str *)
Truthy(s) == s # <<>>

(* ------------------------------ form binding --------------------------- *)
FieldNames == {"mode", "original_prompt", "goal", "audience", "tone", "constraints"}

REQUIRED == <<"...">>

(* the Form(...) declarations of refine(): Form(...) is a required field *)
FormDefaultsGoalRequired ==
    [mode |-> REQUIRED, original_prompt |-> <<>>, goal |-> REQUIRED,
     audience |-> <<"general">>, tone |-> <<"neutral">>, constraints |-> <<>>]

FormDefaults ==
    [mode |-> REQUIRED, original_prompt |-> <<>>, goal |-> <<>>,
     audience |-> <<"general">>, tone |-> <<"neutral">>, constraints |-> <<>>]

(* a form is the multidict of the request body: form[k] is the list of the values
   sent for field k, empty when the field is absent.  Whether a field sent with
   an empty value counts as missing is decided by the installed form binder, not
   by this source: formEmptyIsMissing is fixed at start-up, either way. *)
FieldMissing(form, k, emptyIsMissing) ==
    IF form[k] = <<>> THEN TRUE ELSE emptyIsMissing /\ form[k][1] = <<>>

(* the value the handler's parameter k receives *)
FormParam(form, k, emptyIsMissing) ==
    IF FieldMissing(form, k, emptyIsMissing) THEN FormDefaults[k] ELSE form[k][1]

(* the request fails validation (HTTP 422) before the handler body runs *)
FormRejected(form, emptyIsMissing) ==
    \E k \in FieldNames : FieldMissing(form, k, emptyIsMissing) /\ FormDefaults[k] = REQUIRED

(* refine(), lines 74-81 *)
MakeInputs(form, emptyIsMissing) ==
    LET P(k) == FormParam(form, k, emptyIsMissing)
    IN  PromptInputs(P("mode"),
                     Strip(P("original_prompt")),
                     Strip(P("goal")),
                     OrElse(Strip(P("audience")), DEFAULT_AUDIENCE),
                     P("tone"),
                     Strip(P("constraints")))

(* refine(), lines 83-86 *)
SelectPrompt(inputs) ==
    IF inputs.mode = <<"refine">>
    THEN build_refined_prompt(inputs)
    ELSE build_generated_prompt(inputs)

(* ------------------------------ run_openai ----------------------------- *)
NoOutcome == [kind |-> "none", detail |-> <<>>, choices |-> <<>>]

Raise(detail) == [kind |-> "raise", detail |-> detail, choices |-> <<>>]

Response(choices) == [kind |-> "response", detail |-> <<>>, choices |-> choices]

(* a choice of the response: message may be missing, content may be None *)
Choice(hasMessage, hasContent, content) ==
    [message |-> hasMessage, has_content |-> hasContent, content |-> content]

NoForm == [k \in FieldNames |-> <<>>]

NoRequest ==
    [pc |-> "idle", form |-> NoForm, inputs |-> NoInputs, prompt |-> <<>>, calls |-> 0,
     outcome |-> NoOutcome, result |-> <<>>, status |-> 0]

(* run_openai, lines 137-142 *)
NotConfiguredResult(prompt) == NOT_CONFIGURED_NOTICE \o prompt

(* run_openai, lines 160-166 *)
FailedResultNoDetail(prompt, detail) == FAILED_NOTICE \o FAILED_TAIL \o prompt

FailedResult(prompt, detail) == FAILED_NOTICE \o detail \o FAILED_TAIL \o prompt

(* line 168 dereferences choices[0].message outside the try block *)
RaisesAfterTry(response) ==
    response.choices # <<>> /\ ~response.choices[1].message

(* run_openai, lines 168-169 *)
SuccessResultUntrimmed(response) ==
    IF response.choices # <<>> /\ response.choices[1].has_content
    THEN response.choices[1].content
    ELSE <<>>

SuccessResult(response) ==
    LET content == IF response.choices # <<>>
                   THEN (IF response.choices[1].has_content
                         THEN response.choices[1].content ELSE <<>>)
                   ELSE <<>>
    IN  IF Truthy(content) THEN Strip(content) ELSE <<>>

(* the except branch: the handler resumes with the notice and renders *)
OnRaiseSharedPrompt(q, detail) ==
    LET others == {i \in 1..MaxRequests : req[i].pc = "awaiting" /\ req[i].prompt # q.prompt}
        shared == IF others = {} THEN q.prompt ELSE req[CHOOSE i \in others : TRUE].prompt
    IN  [q EXCEPT !.pc = "done", !.outcome = Raise(detail),
                  !.result = FailedResult(shared, detail), !.status = 200]

OnRaiseRetry(q, detail) ==
    IF q.calls < 2
    THEN [q EXCEPT !.calls = @ + 1]
    ELSE [q EXCEPT !.pc = "done", !.outcome = Raise(detail),
                   !.result = FailedResult(q.prompt, detail), !.status = 200]

OnRaise(q, detail) ==
    [q EXCEPT !.pc = "done", !.outcome = Raise(detail),
              !.result = FailedResult(q.prompt, detail), !.status = 200]

(* the call returned a response object *)
OnResponse(q, response) ==
    IF RaisesAfterTry(response)
    THEN [q EXCEPT !.pc = "error", !.outcome = response, !.status = 500]
    ELSE [q EXCEPT !.pc = "done", !.outcome = response,
                   !.result = SuccessResult(response), !.status = 200]

(* refine() from entry to its await, or to its return when there is no client *)
OnSubmit(q, form, client, emptyIsMissing) ==
    LET inputs == MakeInputs(form, emptyIsMissing)
        prompt == SelectPrompt(inputs)
    IN  IF ~client
        THEN [q EXCEPT !.pc = "done", !.form = form, !.inputs = inputs, !.prompt = prompt,
                       !.result = NotConfiguredResult(prompt), !.status = 200]
        ELSE [q EXCEPT !.pc = "awaiting", !.form = form, !.inputs = inputs,
                       !.prompt = prompt, !.calls = @ + 1]

(* ------------------------------- inputs -------------------------------- *)
Alphabet == {" ", "x"}

Texts == TextsOver(Alphabet, MaxLen)

FieldTexts == {<<>>, <<" ">>, <<"x">>, <<" ", "x", " ">>}

ModeValues == {<<>>, <<"refine">>, <<"generate">>, <<"Refine">>}

ToneValues == {<<>>, <<"neutral">>, <<"friendly">>, <<"professional">>, <<"playful">>,
               <<"Friendly">>, <<" ", "playful">>, <<"formal">>}

FormValues ==
    [mode |-> ModeValues,
     original_prompt |-> FieldTexts \cup {BASE_PLACEHOLDER},
     goal |-> FieldTexts,
     audience |-> {<<>>, <<"x">>, <<" ", "x", " ">>},
     tone |-> {<<>>, <<"playful">>, <<"Playful">>},
     constraints |-> {<<" ">>, <<"x">>}]

(* a form: any subset of the fields, each with one of its values *)
FormsOver(V) ==
    LET Opt(k) == {<<>>} \cup {<<v>> : v \in V[k]}
    IN  [mode : Opt("mode"), original_prompt : Opt("original_prompt"),
         goal : Opt("goal"), audience : Opt("audience"), tone : Opt("tone"),
         constraints : Opt("constraints")]

AllForms == FormsOver(FormValues)

SmallForms ==
    {[NoForm EXCEPT !.mode = <<<<"refine">>>>, !.original_prompt = <<<<"x">>>>],
     [NoForm EXCEPT !.mode = <<<<"refine">>>>, !.original_prompt = <<<<" ">>>>, !.tone = <<<<"playful">>>>],
     [NoForm EXCEPT !.mode = <<<<"generate">>>>, !.goal = <<<<"x">>>>, !.audience = <<<<"x">>>>],
     [NoForm EXCEPT !.goal = <<<<"x">>>>]}

Details == {<<>>, <<"e">>}

Contents == {<<>>, <<" ">>, <<"y">>, <<" ", "y", "\n">>, <<"OpenAI request failed.", " ", "y">>}

Responses ==
    {Response(<<>>), Response(<<Choice(FALSE, FALSE, <<>>)>>), Response(<<Choice(TRUE, FALSE, <<>>)>>),
     Response(<<Choice(TRUE, TRUE, <<"y">>), Choice(TRUE, TRUE, <<"z">>)>>)}
    \cup {Response(<<Choice(TRUE, TRUE, c)>>) : c \in Contents}

SmallResponses == {Response(<<Choice(TRUE, TRUE, <<" ", "y">>)>>), Response(<<Choice(FALSE, FALSE, <<>>)>>)}

KeyEnvs ==
    {[k \in {} |-> <<>>]}
    \cup {[OPENAI_API_KEY |-> v] : v \in {<<>>, <<" ">>, <<"k">>, <<" ", "k">>}}

ModelEnvs ==
    {[OPENAI_API_KEY |-> <<"k">>, OPENAI_MODEL |-> <<"m">>],
     [OPENAI_MODEL |-> <<"m">>], [OPENAI_API_KEY |-> <<"k">>]}

(* --------------------------- module start-up --------------------------- *)
StripKeyNoStrip(raw) == raw

StripKey(raw) == Strip(raw)

Startup(env) ==
    /\ environ = env
    /\ OPENAI_API_KEY = StripKey(getenv(env, "OPENAI_API_KEY", <<>>))
    /\ OPENAI_MODEL = getenv(env, "OPENAI_MODEL", DEFAULT_MODEL)
    /\ openai_client = Truthy(StripKey(getenv(env, "OPENAI_API_KEY", <<>>)))

Idle ==
    /\ req = [r \in 1..MaxRequests |-> NoRequest]
    /\ b_inputs = NoInputs
    /\ b_fn = "none"
    /\ b_out = <<>>

Init ==
    /\ \E env \in KeyEnvs : Startup(env)
    /\ formEmptyIsMissing \in BOOLEAN
    /\ Idle

(* ------------------------------- actions ------------------------------- *)
(* POST /refine arrives and passes form binding *)
Submit(r, Forms) ==
    /\ req[r].pc = "idle"
    /\ \E form \in Forms :
          /\ ~FormRejected(form, formEmptyIsMissing)
          /\ req' = [req EXCEPT ![r] = OnSubmit(req[r], form, openai_client, formEmptyIsMissing)]
    /\ UNCHANGED <<config, harness>>

(* POST /refine arrives without a required field: 422, the handler never runs *)
Reject(r, Forms) ==
    /\ req[r].pc = "idle"
    /\ \E form \in Forms :
          /\ FormRejected(form, formEmptyIsMissing)
          /\ req' = [req EXCEPT ![r] = [@ EXCEPT !.pc = "rejected", !.form = form, !.status = 422]]
    /\ UNCHANGED <<config, harness>>

(* the awaited completion call raises an Exception *)
CallRaises(r, Excs) ==
    /\ req[r].pc = "awaiting"
    /\ \E detail \in Excs : req' = [req EXCEPT ![r] = OnRaise(req[r], detail)]
    /\ UNCHANGED <<config, harness>>

(* the awaited completion call returns a response *)
CallReturns(r, Resps) ==
    /\ req[r].pc = "awaiting"
    /\ \E response \in Resps : req' = [req EXCEPT ![r] = OnResponse(req[r], response)]
    /\ UNCHANGED <<config, harness>>

Next ==
    \/ Submit(1, AllForms)
    \/ Reject(1, AllForms)
    \/ CallRaises(1, Details)
    \/ CallReturns(1, Responses)

Spec == Init /\ [][Next]_vars

(* --------------------- concurrent requests ----------------------------- *)
InitConc ==
    /\ \E env \in ModelEnvs : Startup(env)
    /\ formEmptyIsMissing = TRUE
    /\ Idle

NextConc ==
    \/ \E r \in 1..MaxRequests : Submit(r, SmallForms)
    \/ \E r \in 1..MaxRequests : Reject(r, SmallForms)
    \/ \E r \in 1..MaxRequests : CallRaises(r, {<<"e">>})
    \/ \E r \in 1..MaxRequests : CallReturns(r, SmallResponses)

SpecConc == InitConc /\ [][NextConc]_vars

(* --------------------- the builders as pure functions ------------------ *)
BuilderInputs ==
    {PromptInputs(m, o, g, a, t, c) :
        m \in {<<"refine">>, <<"generate">>, <<>>}, o \in {<<>>, <<"x">>}, g \in {<<>>, <<"x">>},
        a \in Texts, t \in ToneValues, c \in {<<>>, <<"x">>}}

InitBuild ==
    /\ \E env \in {[k \in {} |-> <<>>]} : Startup(env)
    /\ formEmptyIsMissing = TRUE
    /\ req = [r \in 1..MaxRequests |-> NoRequest]
    /\ b_inputs \in BuilderInputs
    /\ b_fn = "none"
    /\ b_out = <<>>

ApplyRefined ==
    /\ b_fn = "none"
    /\ b_fn' = "build_refined_prompt"
    /\ b_out' = build_refined_prompt(b_inputs)
    /\ UNCHANGED <<config, req, b_inputs>>

ApplyGenerated ==
    /\ b_fn = "none"
    /\ b_fn' = "build_generated_prompt"
    /\ b_out' = build_generated_prompt(b_inputs)
    /\ UNCHANGED <<config, req, b_inputs>>

NextBuild == ApplyRefined \/ ApplyGenerated

SpecBuild == InitBuild /\ [][NextBuild]_vars

(* ============================ properties =============================== *)
Requests == 1..MaxRequests

StartsWith(s, p) == Len(p) <= Len(s) /\ SubSeq(s, 1, Len(p)) = p

EndsWith(s, p) == Len(p) <= Len(s) /\ SubSeq(s, Len(s) - Len(p) + 1, Len(s)) = p

Contains(s, p) == \E i \in 0..(Len(s) - Len(p)) : SubSeq(s, i + 1, i + Len(p)) = p

Entered(q) == q.pc \in {"awaiting", "done", "error"}

Finished(q) == q.pc \in {"done", "error", "rejected"}

Blank(t) == \A i \in 1..Len(t) : IsSpace(t[i])

(* t is s without its leading and trailing whitespace *)
IsTrimOf(t, s) ==
    /\ t # <<>> => ~IsSpace(t[1]) /\ ~IsSpace(t[Len(t)])
    /\ \E i \in 0..Len(s) :
          /\ i + Len(t) <= Len(s)
          /\ SubSeq(s, i + 1, i + Len(t)) = t
          /\ \A k \in 1..Len(s) : (k <= i \/ k > i + Len(t)) => IsSpace(s[k])

(* the value sent for field k, the empty text when the field was not sent *)
Sent(q, k) == IF q.form[k] = <<>> THEN <<>> ELSE q.form[k][1]

KeyBlank ==
    "OPENAI_API_KEY" \notin DOMAIN environ \/ Blank(environ["OPENAI_API_KEY"])

FirstMessageMissing(o) ==
    o.kind = "response" /\ o.choices # <<>> /\ ~o.choices[1].message

(* C1: every failure of the outbound call, a raised exception or a malformed
   response whose first choice has no message, ends the request with the
   "request failed" notice rendered in the normal page (status 200); no error
   reaches the caller of run_openai. *)
C1_Claim ==
    \A r \in Requests :
        (req[r].outcome.kind = "raise" \/ FirstMessageMissing(req[r].outcome))
            => /\ req[r].pc = "done"
               /\ req[r].status = 200
               /\ StartsWith(req[r].result, <<"OpenAI request failed.">>)

(* C2 as stated: no request is ever rejected for its form fields, whichever
   subset of the fields it carries. *)
C2_Claim ==
    \A r \in Requests : req[r].pc # "rejected" /\ req[r].status # 422

ModeSent(q) == q.form["mode"] # <<>> /\ q.form["mode"][1] # <<>>

(* C2 amended: a request that carries a non-empty mode is never rejected,
   whichever of the other fields it carries: every missing field gets its
   default and a prompt is constructed; only a request without a mode value is
   rejected. *)
C2_Amended ==
    \A r \in Requests :
        LET q == req[r] IN
        /\ (q.pc # "idle" /\ ModeSent(q)) =>
              /\ Entered(q)
              /\ q.status # 422
              /\ q.inputs.mode = q.form["mode"][1]
              /\ q.form["original_prompt"] = <<>> => q.inputs.original_prompt = <<>>
              /\ q.form["goal"] = <<>> => q.inputs.goal = <<>>
              /\ q.form["constraints"] = <<>> => q.inputs.constraints = <<>>
              /\ q.form["audience"] = <<>> => q.inputs.audience = <<"general">>
              /\ q.form["tone"] = <<>> => q.inputs.tone = <<"neutral">>
              /\ q.inputs.audience # <<>>
              /\ q.prompt # <<>>
              /\ q.prompt \in {build_refined_prompt(q.inputs), build_generated_prompt(q.inputs)}
        /\ q.pc = "rejected" => ~ModeSent(q)

C2_Witness ==
    \E r \in Requests :
        /\ req[r].pc = "done"
        /\ req[r].form["mode"] = << <<"generate">> >>
        /\ \A k \in FieldNames \ {"mode"} : req[r].form[k] = <<>>
        /\ req[r].inputs.audience = <<"general">>

(* C3: with no credential configured (the variable unset, empty or only
   whitespace), the result of run_openai(p) starts with "OpenAI is not
   configured." and ends with the whole constructed prompt p, after the notice. *)
C3_NotConfigured ==
    \A r \in Requests :
        (KeyBlank /\ req[r].pc \notin {"idle", "rejected"}) =>
            /\ req[r].pc = "done"
            /\ req[r].prompt # <<>>
            /\ StartsWith(req[r].result, <<"OpenAI is not configured.">>)
            /\ EndsWith(req[r].result, req[r].prompt)
            /\ Len(req[r].result) > Len(req[r].prompt)

C3_Witness ==
    \E r \in Requests :
        /\ "OPENAI_API_KEY" \in DOMAIN environ
        /\ environ["OPENAI_API_KEY"] = <<" ">>
        /\ req[r].pc = "done"
        /\ Contains(req[r].result, <<"Original prompt:", "\n", "x">>)

(* C4: with a credential configured, when the outbound call raises the result
   starts with "OpenAI request failed.", contains the exception's text in its
   Details line and ends with the whole constructed prompt. *)
C4_RequestFailed ==
    \A r \in Requests :
        (openai_client /\ req[r].outcome.kind = "raise") =>
            /\ StartsWith(req[r].result, <<"OpenAI request failed.">>)
            /\ Contains(req[r].result, req[r].outcome.detail)
            /\ Contains(req[r].result, <<"Details:", " ">> \o req[r].outcome.detail \o <<"\n">>)
            /\ req[r].prompt # <<>>
            /\ EndsWith(req[r].result, req[r].prompt)

C4_Witness ==
    \E r \in Requests :
        /\ openai_client
        /\ req[r].pc = "done"
        /\ req[r].outcome = Raise(<<"e">>)

(* C5 as stated: every finished request has issued exactly one outbound call
   when a credential is configured, and none when it is not. *)
C5_Claim ==
    \A r \in Requests :
        Finished(req[r]) => req[r].calls = (IF openai_client THEN 1 ELSE 0)

(* C5 amended: every request that passes form binding has issued exactly one
   outbound call when a credential is configured and none when it is not; a
   raised call is not retried and the request ends with the failure notice; a
   request rejected by form binding issues no call. *)
C5_Amended ==
    \A r \in Requests :
        LET q == req[r] IN
        /\ Entered(q) => q.calls = (IF openai_client THEN 1 ELSE 0)
        /\ q.pc \in {"idle", "rejected"} => q.calls = 0
        /\ q.outcome.kind = "raise" =>
              q.pc = "done" /\ StartsWith(q.result, <<"OpenAI request failed.">>)

C5_Witness ==
    \E r \in Requests :
        /\ req[r].pc = "done"
        /\ req[r].outcome.kind = "raise"
        /\ req[r].calls = 1

(* C6: for every PromptInputs value both builders return a string, and it
   contains the audience verbatim (on its Audience line) and the tone-guidance
   sentence selected for the tone. *)
C6_BuildersTotal ==
    b_fn # "none" =>
        /\ b_out \in Seq(STRING)
        /\ b_out # <<>>
        /\ Contains(b_out, b_inputs.audience)
        /\ Contains(b_out, <<"Audience:", " ">> \o b_inputs.audience \o <<".", "\n">>)
        /\ Contains(b_out, build_common_guidance(b_inputs))

C6_Witness ==
    /\ b_fn = "build_generated_prompt"
    /\ b_inputs.audience = <<"x", " ">>
    /\ b_inputs.goal = <<>>
    /\ b_inputs.tone = <<"Friendly">>

(* C7: in a request with mode "refine" a blank original_prompt puts the base
   placeholder after "Original prompt:", and a non-blank one puts its trimmed
   text there and no placeholder; with mode "generate" the same holds of goal
   and the goal placeholder on the Goal line. *)
C7_Placeholder ==
    \A r \in Requests :
        LET q    == req[r]
            op   == Sent(q, "original_prompt")
            goal == Sent(q, "goal")
        IN
        /\ (Entered(q) /\ q.form["mode"] = << <<"refine">> >>) =>
              IF Blank(op)
              THEN /\ Contains(q.prompt, BASE_PLACEHOLDER)
                   /\ EndsWith(q.prompt, <<"Original prompt:", "\n", "[Paste your base prompt here]">>)
              ELSE /\ \E i, j \in 1..Len(op) :
                         /\ IsTrimOf(SubSeq(op, i, j), op)
                         /\ EndsWith(q.prompt, <<"Original prompt:", "\n">> \o SubSeq(op, i, j))
                   /\ Contains(op, BASE_PLACEHOLDER) \/ ~Contains(q.prompt, BASE_PLACEHOLDER)
        /\ (Entered(q) /\ q.form["mode"] = << <<"generate">> >>) =>
              IF Blank(goal)
              THEN Contains(q.prompt,
                            <<"Goal:", " ", "[Describe the outcome you want to achieve]", "\n", "Audience:">>)
              ELSE /\ \E i, j \in 1..Len(goal) :
                         /\ IsTrimOf(SubSeq(goal, i, j), goal)
                         /\ Contains(q.prompt,
                                     <<"Goal:", " ">> \o SubSeq(goal, i, j) \o <<"\n", "Audience:">>)
                   /\ ~Contains(q.prompt, GOAL_PLACEHOLDER)

C7_Witness ==
    \E r \in Requests :
        /\ Entered(req[r])
        /\ req[r].form["mode"] = << <<"refine">> >>
        /\ req[r].form["original_prompt"] = << <<" ", "x", " ">> >>
        /\ EndsWith(req[r].prompt, <<"Original prompt:", "\n", "x">>)

(* C8: the tone-guidance of the constructed prompt is the key's own sentence
   for each of the four keys and the neutral sentence for every other tone
   value (empty, other letter case, surrounding whitespace, unknown). *)
C8_ToneFallback ==
    b_fn # "none" =>
        LET t == b_inputs.tone
            expected ==
                IF t = <<"friendly">> THEN "Use a warm, friendly tone that feels approachable."
                ELSE IF t = <<"professional">> THEN "Use a crisp, professional tone with confident wording."
                ELSE IF t = <<"playful">> THEN "Use a playful, light tone that still feels helpful."
                ELSE "Use a clear, neutral tone."
        IN  /\ build_common_guidance(b_inputs) = <<expected>>
            /\ Contains(b_out, <<"\n", expected, "\n", "Constraints:">>)
            /\ \A k \in DOMAIN TONE_MAP :
                  TONE_MAP[k] # <<expected>> => ~Contains(b_out, TONE_MAP[k])

C8_Witness ==
    /\ b_fn = "build_refined_prompt"
    /\ b_inputs.tone = <<" ", "playful">>
    /\ Contains(b_out, <<"Use a clear, neutral tone.">>)

(* C9: when the call returns a response (whose first choice, if any, has a
   message), the result is the first choice's content with surrounding
   whitespace trimmed, the empty string when there is no choice or the content
   is absent or empty, and carries no notice text that the content lacks. *)
C9_Success ==
    \A r \in Requests :
        LET q  == req[r]
            cs == q.outcome.choices
        IN
        (q.outcome.kind = "response" /\ ~FirstMessageMissing(q.outcome)) =>
            /\ q.pc = "done"
            /\ IF cs = <<>> \/ ~cs[1].has_content \/ cs[1].content = <<>>
               THEN q.result = <<>>
               ELSE /\ IsTrimOf(q.result, cs[1].content)
                    /\ \A n \in {"OpenAI is not configured.", "OpenAI request failed."} :
                          Contains(q.result, <<n>>) => Contains(cs[1].content, <<n>>)

C9_Witness ==
    \E r \in Requests :
        /\ req[r].pc = "done"
        /\ req[r].outcome.kind = "response"
        /\ req[r].outcome.choices # <<>>
        /\ req[r].outcome.choices[1].content = <<" ", "y", "\n">>
        /\ req[r].result = <<"y">>

(* what a request shows, as a function of its form, the configuration and the
   outcome of its own call *)
ExpectedInputs(q) == MakeInputs(q.form, formEmptyIsMissing)

ExpectedResult(q) ==
    LET p == SelectPrompt(ExpectedInputs(q))
    IN  IF ~openai_client THEN NotConfiguredResult(p)
        ELSE IF q.outcome.kind = "raise" THEN FailedResult(p, q.outcome.detail)
        ELSE SuccessResult(q.outcome)

Isolated ==
    /\ \A r \in Requests :
          /\ req[r].pc \in {"idle", "awaiting", "done", "error", "rejected"}
          /\ req[r].pc = "awaiting" => req[r].calls = 1 /\ req[r].outcome = NoOutcome
          /\ Entered(req[r]) => req[r].inputs = ExpectedInputs(req[r])
          /\ req[r].pc = "done" => req[r].result = ExpectedResult(req[r])
    /\ \A r1, r2 \in Requests :
          (/\ Finished(req[r1]) /\ Finished(req[r2])
           /\ req[r1].form = req[r2].form
           /\ req[r1].outcome = req[r2].outcome) => req[r1] = req[r2]

StepIsolated ==
    /\ config' = config
    /\ \A r1, r2 \in Requests : r1 # r2 => (req'[r1] = req[r1] \/ req'[r2] = req[r2])
    /\ \A r \in Requests : Finished(req[r]) => req'[r] = req[r]
    /\ \A r \in Requests :
          (req[r].pc = "awaiting" /\ req'[r] # req[r]) =>
              /\ Finished(req'[r])
              /\ req'[r].form = req[r].form
              /\ req'[r].inputs = req[r].inputs

(* C10: concurrent requests do not interfere: a handler waits only at its one
   outbound call, the configuration is never written after start-up, a step of
   one request changes no other request, and each request's result and echoed
   inputs are a function of its own form, the configuration and the outcome of
   its own call. *)
C10_NoInterference == [](Isolated) /\ [][StepIsolated]_vars

C10_Witness ==
    /\ req[1].pc = "done"
    /\ req[2].pc = "done"
    /\ req[1].form # req[2].form
    /\ req[1].outcome.kind = "raise"
    /\ req[2].outcome.kind = "response"
    /\ req[2].result = <<"y">>

====
